---- MODULE Spec2Model ----
(***************************************************************************)
(* Outbound validation of eth-tester (eth_tester/validation/outbound.py).  *)
(*                                                                         *)
(* A Python value is a pair <<tag, payload>>:                              *)
(*   <<"none", 0>>          None                                           *)
(*   <<"bool", b>>          True / False                                   *)
(*   <<"int", <<e, d>>>>    the integer d when e = 0, else 2^e + d         *)
(*   <<"bytes", n>>         a byte string of length n                      *)
(*   <<"str", s>>           the text s                                     *)
(*   <<"list", seq>>        a list                                         *)
(*   <<"dict", f>>          a dict with string keys                        *)
(* A validator call ends "ok" or with the name of the exception raised.    *)
(***************************************************************************)
EXTENDS Integers, Sequences, FiniteSets, TLC

VARIABLES pc, call, arg, vm, result, ret, after, trace

vars == <<pc, call, arg, vm, result, ret, after, trace>>

\* ------------------------------------------------------------- values

None == <<"none", 0>>
Bool(b) == <<"bool", b>>
IntV(n) == <<"int", <<0, n>>>>
Pow2(e, d) == <<"int", <<e, d>>>>
Bytes(n) == <<"bytes", n>>
Str(s) == <<"str", s>>
List(s) == <<"list", s>>
Dict(f) == <<"dict", f>>
Raised == <<"raised", 0>>

OK == "ok"
ValidationError == "ValidationError"
KeyError == "KeyError"
IndexError == "IndexError"
TypeError == "TypeError"

Then(r1, r2) == IF r1 # OK THEN r1 ELSE r2

\* Order of the integers 2^e + d (e = 0: d itself); |d| stays far below 2^63.
IntLeq(a, b) == a[1] < b[1] \/ (a[1] = b[1] /\ a[2] <= b[2])
IntLt(a, b) == a[1] < b[1] \/ (a[1] = b[1] /\ a[2] < b[2])
IntSucc(a) == <<a[1], a[2] + 1>>

UINT64_MAX == <<64, -1>>
UINT256_MAX == <<256, -1>>
UINT2048_MAX == <<2048, -1>>

\* ------------------------------------------------------------- eth_utils

is_bytes(value) == value[1] = "bytes"
is_integer(value) == value[1] = "int"
is_list_like(value) == value[1] = "list"
is_dict(value) == value[1] = "dict"
is_canonical_address(value) == is_bytes(value) /\ value[2] = 20

HasLen(value) == value[1] \in {"bytes", "str", "list", "dict"}
PyLen(value) ==
    CASE value[1] = "bytes" -> value[2]
      [] value[1] = "str" -> Len(value[2])
      [] value[1] = "list" -> Len(value[2])
      [] value[1] = "dict" -> Cardinality(DOMAIN value[2])

Keys(value) == DOMAIN value[2]
HasKey(value, key) == key \in DOMAIN value[2]
GetItem(value, key) == value[2][key]
SetItem(value, key, v) ==
    Dict([k \in (DOMAIN value[2]) \cup {key} |-> IF k = key THEN v ELSE value[2][k]])
DelItem(value, key) ==
    Dict([k \in (DOMAIN value[2]) \ {key} |-> value[2][k]])

\* ------------------------------------------------------------- common.py primitives

validate_bytes(value) == IF is_bytes(value) THEN OK ELSE ValidationError

validate_positive_integer(value) ==
    IF ~is_integer(value) THEN ValidationError
    ELSE IF IntLt(value[2], <<0, 0>>) THEN ValidationError
    ELSE OK

validate_uint64(value) ==
    Then(validate_positive_integer(value),
         IF IntLeq(value[2], UINT64_MAX) THEN OK ELSE ValidationError)

validate_uint256(value) ==
    Then(validate_positive_integer(value),
         IF IntLeq(value[2], UINT256_MAX) THEN OK ELSE ValidationError)

validate_transaction_type(value) ==
    Then(validate_positive_integer(value),
         IF IntLeq(value[2], <<0, 4>>) THEN OK ELSE ValidationError)

CREATE_CONTRACT_ADDRESS == Bytes(0)

\* ------------------------------------------------------------- outbound.py primitives

validate_32_byte_string(value) ==
    Then(validate_bytes(value),
         IF PyLen(value) # 32 THEN ValidationError ELSE OK)

validate_nonce(value) ==
    Then(validate_bytes(value),
         IF PyLen(value) # 8 THEN ValidationError ELSE OK)

validate_logs_bloom(value) ==
    Then(validate_positive_integer(value),
         IF ~IntLeq(value[2], UINT2048_MAX) THEN ValidationError ELSE OK)

validate_canonical_address(value) ==
    Then(validate_bytes(value),
         IF ~is_canonical_address(value) THEN ValidationError ELSE OK)

\* `value not in {"pending", "mined"}` hashes value: a list or a dict is unhashable.
validate_log_entry_type(value) ==
    IF value[1] \in {"list", "dict"} THEN TypeError
    ELSE IF ~(value[1] = "str" /\ value[2] \in {"pending", "mined"}) THEN ValidationError
    ELSE OK

validate_signature_v(value) ==
    Then(validate_positive_integer(value),
         IF /\ value[2] \notin {<<0, 0>>, <<0, 1>>, <<0, 27>>, <<0, 28>>}
            /\ ~(IntLeq(<<0, 35>>, value[2]) /\ IntLt(value[2], IntSucc(UINT256_MAX)))
         THEN ValidationError ELSE OK)

validate_y_parity(value) ==
    Then(validate_positive_integer(value),
         IF value[2] \notin {<<0, 0>>, <<0, 1>>} THEN ValidationError ELSE OK)

validate_status(value) ==
    Then(validate_positive_integer(value),
         IF IntLt(<<0, 1>>, value[2]) THEN ValidationError ELSE OK)

\* ------------------------------------------------------------- access list

\* entry[i]: a list indexes its items; the bytes of a byte string are integers and
\* the characters of a text are texts (neither is a byte string, which is all the
\* caller looks at); a dict with string keys has no key i.
SubscriptError(entry, i) ==
    CASE entry[1] = "list" -> IF i + 1 > Len(entry[2]) THEN IndexError ELSE OK
      [] entry[1] = "bytes" -> IF i + 1 > entry[2] THEN IndexError ELSE OK
      [] entry[1] = "str" -> IF i + 1 > Len(entry[2]) THEN IndexError ELSE OK
      [] entry[1] = "dict" -> KeyError
      [] OTHER -> TypeError

Subscript(entry, i) ==
    CASE entry[1] = "list" -> entry[2][i + 1]
      [] entry[1] = "bytes" -> IntV(0)
      [] OTHER -> Str("c")

AllIntegers(storage_keys) == \A i \in DOMAIN storage_keys[2] : is_integer(storage_keys[2][i])

access_list_entry(entry) ==
    IF ~is_list_like(entry) /\ ~HasLen(entry) THEN TypeError
    ELSE IF ~is_list_like(entry) /\ PyLen(entry) # 2 THEN ValidationError
    ELSE IF SubscriptError(entry, 0) # OK THEN SubscriptError(entry, 0)
    ELSE IF SubscriptError(entry, 1) # OK THEN SubscriptError(entry, 1)
    ELSE LET address == Subscript(entry, 0)
             storage_keys == Subscript(entry, 1)
         IN  IF ~(is_bytes(address) /\ PyLen(address) = 20) THEN ValidationError
             ELSE IF ~is_list_like(storage_keys) THEN ValidationError
             ELSE IF PyLen(storage_keys) > 0 /\ ~AllIntegers(storage_keys)
                  THEN ValidationError
             ELSE OK

RECURSIVE AccessListEntries(_, _)
AccessListEntries(entries, i) ==
    IF i > Len(entries) THEN OK
    ELSE Then(access_list_entry(entries[i]), AccessListEntries(entries, i + 1))

_validate_outbound_access_list(access_list) ==
    IF ~is_list_like(access_list) THEN ValidationError
    ELSE AccessListEntries(access_list[2], 1)

\* ------------------------------------------------------------- authorization list

AUTHORIZATION_KEYS == {"chain_id", "address", "nonce", "y_parity", "r", "s"}

\* `key in auth` for an auth that is no dict: None, a number and a byte string
\* cannot be searched for a text; a list holds the key when it has that text as an
\* item; the texts of this model are short words holding none of the keys.
ContainsError(auth) ==
    IF auth[1] \in {"none", "bool", "int", "bytes"} THEN TypeError ELSE OK

ContainsAllKeys(auth) ==
    CASE auth[1] = "list" ->
            \A key \in AUTHORIZATION_KEYS :
                \E i \in DOMAIN auth[2] : auth[2][i][1] = "str" /\ auth[2][i][2] = key
      [] auth[1] = "dict" -> AUTHORIZATION_KEYS \subseteq Keys(auth)
      [] OTHER -> FALSE

\* auth[key] for a dict; a list or a text cannot be indexed by a text.
AuthItemError(auth, key) ==
    IF ~is_dict(auth) THEN TypeError
    ELSE IF ~HasKey(auth, key) THEN KeyError
    ELSE OK

authorization_entry(auth) ==
    IF ~is_dict(auth) /\ ContainsError(auth) # OK THEN ContainsError(auth)
    ELSE IF ~is_dict(auth) /\ ~ContainsAllKeys(auth) THEN ValidationError
    ELSE IF AuthItemError(auth, "chain_id") # OK THEN AuthItemError(auth, "chain_id")
    ELSE IF validate_uint256(GetItem(auth, "chain_id")) # OK THEN ValidationError
    ELSE IF AuthItemError(auth, "address") # OK THEN AuthItemError(auth, "address")
    ELSE IF validate_canonical_address(GetItem(auth, "address")) # OK THEN ValidationError
    ELSE IF AuthItemError(auth, "nonce") # OK THEN AuthItemError(auth, "nonce")
    ELSE IF validate_uint64(GetItem(auth, "nonce")) # OK THEN ValidationError
    ELSE IF AuthItemError(auth, "y_parity") # OK THEN AuthItemError(auth, "y_parity")
    ELSE IF validate_y_parity(GetItem(auth, "y_parity")) # OK THEN ValidationError
    ELSE IF AuthItemError(auth, "r") # OK THEN AuthItemError(auth, "r")
    ELSE IF validate_uint256(GetItem(auth, "r")) # OK THEN ValidationError
    ELSE IF AuthItemError(auth, "s") # OK THEN AuthItemError(auth, "s")
    ELSE IF validate_uint256(GetItem(auth, "s")) # OK THEN ValidationError
    ELSE OK

RECURSIVE AuthorizationEntries(_, _)
AuthorizationEntries(entries, i) ==
    IF i > Len(entries) THEN OK
    ELSE Then(authorization_entry(entries[i]), AuthorizationEntries(entries, i + 1))

_validate_outbound_authorization_list(authorization_list) ==
    IF ~is_list_like(authorization_list) THEN ValidationError
    ELSE AuthorizationEntries(authorization_list[2], 1)

\* ------------------------------------------------------------- combinators

\* A validator is a descriptor, applied by Apply.
Fn(name) == <<"fn", name>>
ArrayOf(validator) == <<"array", validator>>
DictOf(key_validators) == <<"dict", key_validators>>
AnyOf(validators) == <<"any", validators>>
if_not_null(validator_fn) == <<"if_not_null", validator_fn>>
if_not_create_address(validator_fn) == <<"if_not_create_address", validator_fn>>
identity == <<"identity", 0>>

\* A schema (key_validators) is the sequence of <<key, validator>> of the dict
\* literal, in the order written.
SchemaKeys(key_validators) == {key_validators[i][1] : i \in DOMAIN key_validators}
SchemaValidator(key_validators, key) ==
    LET i == CHOOSE j \in DOMAIN key_validators : key_validators[j][1] = key
    IN  key_validators[i][2]
NotIn(key_validators, seq) ==
    LET F[i \in 0..Len(seq)] ==
            IF i = 0 THEN <<>>
            ELSE IF seq[i][1] \in SchemaKeys(key_validators) THEN F[i - 1]
            ELSE Append(F[i - 1], seq[i])
    IN  F[Len(seq)]
merge(a, b) ==
    [i \in 1..Len(a) |->
        IF a[i][1] \in SchemaKeys(b) THEN <<a[i][1], SchemaValidator(b, a[i][1])>>
        ELSE a[i]] \o NotIn(a, b)

CallFn(name, value) ==
    CASE name = "validate_bytes" -> validate_bytes(value)
      [] name = "validate_positive_integer" -> validate_positive_integer(value)
      [] name = "validate_uint64" -> validate_uint64(value)
      [] name = "validate_uint256" -> validate_uint256(value)
      [] name = "validate_transaction_type" -> validate_transaction_type(value)
      [] name = "validate_32_byte_string" -> validate_32_byte_string(value)
      [] name = "validate_nonce" -> validate_nonce(value)
      [] name = "validate_logs_bloom" -> validate_logs_bloom(value)
      [] name = "validate_canonical_address" -> validate_canonical_address(value)
      [] name = "validate_log_entry_type" -> validate_log_entry_type(value)
      [] name = "validate_signature_v" -> validate_signature_v(value)
      [] name = "validate_y_parity" -> validate_y_parity(value)
      [] name = "validate_status" -> validate_status(value)
      [] name = "_validate_outbound_access_list" -> _validate_outbound_access_list(value)
      [] name = "_validate_outbound_authorization_list" ->
            _validate_outbound_authorization_list(value)

RECURSIVE Apply(_, _)
RECURSIVE ArrayItems(_, _, _)
RECURSIVE DictItems(_, _, _)
RECURSIVE AnyMember(_, _, _)

ArrayItems(items, validator, i) ==
    IF i > Len(items) THEN OK
    ELSE Then(Apply(validator, items[i]), ArrayItems(items, validator, i + 1))

validate_array(value, validator) ==
    IF ~is_list_like(value) THEN ValidationError
    ELSE ArrayItems(value[2], validator, 1)

DictItems(value, key_validators, i) ==
    IF i > Len(key_validators) THEN OK
    ELSE Then(Apply(key_validators[i][2], GetItem(value, key_validators[i][1])),
              DictItems(value, key_validators, i + 1))

validate_dict(value, key_validators) ==
    IF ~is_dict(value) THEN ValidationError
    ELSE IF Keys(value) # SchemaKeys(key_validators) THEN ValidationError
    ELSE DictItems(value, key_validators, 1)

AnyMember(value, validators, i) ==
    IF i > Len(validators) THEN ValidationError
    ELSE LET r == Apply(validators[i], value)
         IN  IF r = ValidationError THEN AnyMember(value, validators, i + 1) ELSE r

validate_any(value, validators) == AnyMember(value, validators, 1)

Apply(validator, value) ==
    CASE validator[1] = "fn" -> CallFn(validator[2], value)
      [] validator[1] = "array" -> validate_array(value, validator[2])
      [] validator[1] = "dict" -> validate_dict(value, validator[2])
      [] validator[1] = "any" -> validate_any(value, validator[2])
      [] validator[1] = "if_not_null" ->
            IF value[1] # "none" THEN Apply(validator[2], value) ELSE OK
      [] validator[1] = "if_not_create_address" ->
            IF ~(value[1] = "bytes" /\ value[2] = CREATE_CONTRACT_ADDRESS[2])
            THEN Apply(validator[2], value) ELSE OK
      [] validator[1] = "identity" -> OK

\* ------------------------------------------------------------- record schemas

\* Mutant: block_hash of a log entry bound without if_not_null.
LOG_ENTRY_VALIDATORS_BLOCK_HASH_REQUIRED ==
    << <<"type", Fn("validate_log_entry_type")>>,
       <<"log_index", Fn("validate_positive_integer")>>,
       <<"transaction_index", if_not_null(Fn("validate_positive_integer"))>>,
       <<"transaction_hash", Fn("validate_32_byte_string")>>,
       <<"block_hash", Fn("validate_32_byte_string")>>,
       <<"block_number", if_not_null(Fn("validate_positive_integer"))>>,
       <<"address", Fn("validate_canonical_address")>>,
       <<"data", Fn("validate_bytes")>>,
       <<"topics", ArrayOf(Fn("validate_32_byte_string"))>> >>

LOG_ENTRY_VALIDATORS ==
    << <<"type", Fn("validate_log_entry_type")>>,
       <<"log_index", Fn("validate_positive_integer")>>,
       <<"transaction_index", if_not_null(Fn("validate_positive_integer"))>>,
       <<"transaction_hash", Fn("validate_32_byte_string")>>,
       <<"block_hash", if_not_null(Fn("validate_32_byte_string"))>>,
       <<"block_number", if_not_null(Fn("validate_positive_integer"))>>,
       <<"address", Fn("validate_canonical_address")>>,
       <<"data", Fn("validate_bytes")>>,
       <<"topics", ArrayOf(Fn("validate_32_byte_string"))>> >>

validate_log_entry == DictOf(LOG_ENTRY_VALIDATORS)

LEGACY_TRANSACTION_VALIDATORS ==
    << <<"type", Fn("validate_transaction_type")>>,
       <<"hash", Fn("validate_32_byte_string")>>,
       <<"nonce", Fn("validate_uint64")>>,
       <<"block_hash", if_not_null(Fn("validate_32_byte_string"))>>,
       <<"block_number", if_not_null(Fn("validate_positive_integer"))>>,
       <<"transaction_index", if_not_null(Fn("validate_positive_integer"))>>,
       <<"from", Fn("validate_canonical_address")>>,
       <<"to", if_not_create_address(Fn("validate_canonical_address"))>>,
       <<"value", Fn("validate_uint256")>>,
       <<"gas", Fn("validate_uint256")>>,
       <<"gas_price", Fn("validate_uint256")>>,
       <<"data", Fn("validate_bytes")>>,
       <<"v", Fn("validate_signature_v")>>,
       <<"r", Fn("validate_uint256")>>,
       <<"s", Fn("validate_uint256")>> >>

validate_legacy_transaction == DictOf(LEGACY_TRANSACTION_VALIDATORS)

\* Mutant: the access-list schema keeps the legacy check of v.
ACCESS_LIST_TRANSACTION_VALIDATORS_KEEPING_SIGNATURE_V ==
    merge(LEGACY_TRANSACTION_VALIDATORS,
          << <<"y_parity", Fn("validate_y_parity")>>,
             <<"chain_id", Fn("validate_uint256")>>,
             <<"access_list", Fn("_validate_outbound_access_list")>> >>)

ACCESS_LIST_TRANSACTION_VALIDATORS ==
    merge(LEGACY_TRANSACTION_VALIDATORS,
          << <<"v", Fn("validate_y_parity")>>,
             <<"y_parity", Fn("validate_y_parity")>>,
             <<"chain_id", Fn("validate_uint256")>>,
             <<"access_list", Fn("_validate_outbound_access_list")>> >>)

validate_access_list_transaction == DictOf(ACCESS_LIST_TRANSACTION_VALIDATORS)

DYNAMIC_FEE_TRANSACTION_VALIDATORS ==
    merge(ACCESS_LIST_TRANSACTION_VALIDATORS,
          << <<"max_fee_per_gas", Fn("validate_uint256")>>,
             <<"max_priority_fee_per_gas", Fn("validate_uint256")>> >>)

validate_dynamic_fee_transaction == DictOf(DYNAMIC_FEE_TRANSACTION_VALIDATORS)

\* Mutant: the blob schema adds no key to the dynamic-fee schema.
BLOB_TRANSACTION_VALIDATORS_WITHOUT_BLOB_FIELDS ==
    merge(DYNAMIC_FEE_TRANSACTION_VALIDATORS, <<>>)

BLOB_TRANSACTION_VALIDATORS ==
    merge(DYNAMIC_FEE_TRANSACTION_VALIDATORS,
          << <<"max_fee_per_blob_gas", Fn("validate_uint256")>>,
             <<"blob_versioned_hashes", ArrayOf(Fn("validate_32_byte_string"))>> >>)

validate_blob_transactions == DictOf(BLOB_TRANSACTION_VALIDATORS)

SET_CODE_TRANSACTION_VALIDATORS ==
    merge(DYNAMIC_FEE_TRANSACTION_VALIDATORS,
          << <<"authorization_list", Fn("_validate_outbound_authorization_list")>> >>)

validate_set_code_transaction == DictOf(SET_CODE_TRANSACTION_VALIDATORS)

\* Mutant: the union of validate_transaction without its last member.
validate_transaction_without_set_code ==
    AnyOf(<< DictOf(LEGACY_TRANSACTION_VALIDATORS),
             DictOf(ACCESS_LIST_TRANSACTION_VALIDATORS),
             DictOf(DYNAMIC_FEE_TRANSACTION_VALIDATORS),
             DictOf(BLOB_TRANSACTION_VALIDATORS) >>)

validate_transaction ==
    AnyOf(<< DictOf(LEGACY_TRANSACTION_VALIDATORS),
             DictOf(ACCESS_LIST_TRANSACTION_VALIDATORS),
             DictOf(DYNAMIC_FEE_TRANSACTION_VALIDATORS),
             DictOf(BLOB_TRANSACTION_VALIDATORS),
             DictOf(SET_CODE_TRANSACTION_VALIDATORS) >>)

\* Mutant: the withdrawal schema without its amount.
WITHDRAWAL_VALIDATORS_WITHOUT_AMOUNT ==
    << <<"index", Fn("validate_uint64")>>,
       <<"validator_index", Fn("validate_uint64")>>,
       <<"address", Fn("validate_canonical_address")>> >>

\* Mutant: the withdrawal amount checked as a uint256.
WITHDRAWAL_VALIDATORS_AMOUNT_UINT256 ==
    << <<"index", Fn("validate_uint64")>>,
       <<"validator_index", Fn("validate_uint64")>>,
       <<"address", Fn("validate_canonical_address")>>,
       <<"amount", Fn("validate_uint256")>> >>

WITHDRAWAL_VALIDATORS ==
    << <<"index", Fn("validate_uint64")>>,
       <<"validator_index", Fn("validate_uint64")>>,
       <<"address", Fn("validate_canonical_address")>>,
       <<"amount", Fn("validate_uint64")>> >>

validate_withdrawal == DictOf(WITHDRAWAL_VALIDATORS)

RECEIPT_VALIDATORS ==
    << <<"transaction_hash", Fn("validate_32_byte_string")>>,
       <<"transaction_index", if_not_null(Fn("validate_positive_integer"))>>,
       <<"block_number", if_not_null(Fn("validate_positive_integer"))>>,
       <<"block_hash", if_not_null(Fn("validate_32_byte_string"))>>,
       <<"cumulative_gas_used", Fn("validate_positive_integer")>>,
       <<"effective_gas_price", if_not_null(Fn("validate_positive_integer"))>>,
       <<"from", Fn("validate_canonical_address")>>,
       <<"gas_used", Fn("validate_positive_integer")>>,
       <<"contract_address", if_not_null(Fn("validate_canonical_address"))>>,
       <<"logs", ArrayOf(validate_log_entry)>>,
       <<"state_root", Fn("validate_bytes")>>,
       <<"status", Fn("validate_status")>>,
       <<"to", if_not_create_address(Fn("validate_canonical_address"))>>,
       <<"type", Fn("validate_transaction_type")>> >>

\* Mutant: the Cancun receipt schema adds blob_gas_used only.
CANCUN_RECEIPT_VALIDATORS_WITHOUT_BLOB_GAS_PRICE ==
    merge(RECEIPT_VALIDATORS,
          << <<"blob_gas_used", Fn("validate_positive_integer")>> >>)

CANCUN_RECEIPT_VALIDATORS ==
    merge(RECEIPT_VALIDATORS,
          << <<"blob_gas_used", Fn("validate_positive_integer")>>,
             <<"blob_gas_price", Fn("validate_positive_integer")>> >>)

validate_receipt ==
    AnyOf(<< DictOf(RECEIPT_VALIDATORS), DictOf(CANCUN_RECEIPT_VALIDATORS) >>)

\* Mutant: the union is applied to each element instead of to the list.
BLOCK_TRANSACTIONS_PER_ELEMENT ==
    ArrayOf(AnyOf(<< Fn("validate_32_byte_string"),
                     validate_legacy_transaction,
                     validate_access_list_transaction,
                     validate_dynamic_fee_transaction,
                     validate_blob_transactions >>))

BLOCK_TRANSACTIONS_VALIDATOR ==
    AnyOf(<< ArrayOf(Fn("validate_32_byte_string")),
             ArrayOf(validate_legacy_transaction),
             ArrayOf(validate_access_list_transaction),
             ArrayOf(validate_dynamic_fee_transaction),
             ArrayOf(validate_blob_transactions) >>)

\* Mutant: the block schema checks withdrawals_root itself, as a 32-byte string.
BLOCK_VALIDATORS_CHECKING_WITHDRAWALS_ROOT ==
    << <<"number", Fn("validate_positive_integer")>>,
       <<"hash", Fn("validate_32_byte_string")>>,
       <<"parent_hash", Fn("validate_32_byte_string")>>,
       <<"nonce", Fn("validate_nonce")>>,
       <<"sha3_uncles", Fn("validate_32_byte_string")>>,
       <<"logs_bloom", Fn("validate_logs_bloom")>>,
       <<"transactions_root", Fn("validate_32_byte_string")>>,
       <<"receipts_root", Fn("validate_32_byte_string")>>,
       <<"state_root", Fn("validate_32_byte_string")>>,
       <<"coinbase", Fn("validate_canonical_address")>>,
       <<"difficulty", Fn("validate_positive_integer")>>,
       <<"mix_hash", Fn("validate_32_byte_string")>>,
       <<"total_difficulty", Fn("validate_positive_integer")>>,
       <<"size", Fn("validate_positive_integer")>>,
       <<"extra_data", Fn("validate_32_byte_string")>>,
       <<"gas_limit", Fn("validate_positive_integer")>>,
       <<"gas_used", Fn("validate_positive_integer")>>,
       <<"timestamp", Fn("validate_positive_integer")>>,
       <<"transactions", BLOCK_TRANSACTIONS_VALIDATOR>>,
       <<"uncles", ArrayOf(Fn("validate_32_byte_string"))>>,
       <<"base_fee_per_gas", identity>>,
       <<"withdrawals", identity>>,
       <<"withdrawals_root", Fn("validate_32_byte_string")>>,
       <<"parent_beacon_block_root", identity>>,
       <<"blob_gas_used", identity>>,
       <<"excess_blob_gas", identity>>,
       <<"requests_hash", identity>> >>

BLOCK_VALIDATORS ==
    << <<"number", Fn("validate_positive_integer")>>,
       <<"hash", Fn("validate_32_byte_string")>>,
       <<"parent_hash", Fn("validate_32_byte_string")>>,
       <<"nonce", Fn("validate_nonce")>>,
       <<"sha3_uncles", Fn("validate_32_byte_string")>>,
       <<"logs_bloom", Fn("validate_logs_bloom")>>,
       <<"transactions_root", Fn("validate_32_byte_string")>>,
       <<"receipts_root", Fn("validate_32_byte_string")>>,
       <<"state_root", Fn("validate_32_byte_string")>>,
       <<"coinbase", Fn("validate_canonical_address")>>,
       <<"difficulty", Fn("validate_positive_integer")>>,
       <<"mix_hash", Fn("validate_32_byte_string")>>,
       <<"total_difficulty", Fn("validate_positive_integer")>>,
       <<"size", Fn("validate_positive_integer")>>,
       <<"extra_data", Fn("validate_32_byte_string")>>,
       <<"gas_limit", Fn("validate_positive_integer")>>,
       <<"gas_used", Fn("validate_positive_integer")>>,
       <<"timestamp", Fn("validate_positive_integer")>>,
       <<"transactions", BLOCK_TRANSACTIONS_VALIDATOR>>,
       <<"uncles", ArrayOf(Fn("validate_32_byte_string"))>>,
       <<"base_fee_per_gas", identity>>,
       <<"withdrawals", identity>>,
       <<"withdrawals_root", identity>>,
       <<"parent_beacon_block_root", identity>>,
       <<"blob_gas_used", identity>>,
       <<"excess_blob_gas", identity>>,
       <<"requests_hash", identity>> >>

validate_accounts == ArrayOf(Fn("validate_canonical_address"))

\* ------------------------------------------------------------- fork-field resolver

\* The fork predicates of backends/pyevm/utils: the backend's answer for the block,
\* here the protocol version vm the block was made under.
is_london_block(block) == vm.london
is_shanghai_block(block) == vm.shanghai
is_cancun_block(block) == vm.cancun
is_prague_block(block) == vm.prague

\* validator(block[key]): the subscript raises KeyError before the validator runs.
CheckItem(block, key, validator) ==
    IF ~HasKey(block, key) THEN KeyError ELSE Apply(validator, GetItem(block, key))

\* Each stage gives the outcome and the block as the stage leaves it.
LondonStage(block) ==
    IF is_london_block(block)
    THEN [result |-> CheckItem(block, "base_fee_per_gas", Fn("validate_positive_integer")),
          block |-> block]
    ELSE [result |-> OK, block |-> SetItem(block, "base_fee_per_gas", None)]

ShanghaiStage(block) ==
    IF is_shanghai_block(block)
    THEN [result |-> Then(CheckItem(block, "withdrawals", ArrayOf(validate_withdrawal)),
                          CheckItem(block, "withdrawals_root", Fn("validate_32_byte_string"))),
          block |-> block]
    ELSE [result |-> OK,
          block |-> SetItem(SetItem(block, "withdrawals", None), "withdrawals_root", None)]

\* Mutant: the Cancun stage of a pre-Cancun block forgets excess_blob_gas.
CancunStageForgetsExcessBlobGas(block) ==
    IF is_cancun_block(block)
    THEN [result |->
              Then(CheckItem(block, "parent_beacon_block_root", Fn("validate_32_byte_string")),
              Then(CheckItem(block, "blob_gas_used", Fn("validate_positive_integer")),
                   CheckItem(block, "excess_blob_gas", Fn("validate_positive_integer")))),
          block |-> block]
    ELSE [result |-> OK,
          block |-> SetItem(SetItem(block, "parent_beacon_block_root", None),
                            "blob_gas_used", None)]

CancunStage(block) ==
    IF is_cancun_block(block)
    THEN [result |->
              Then(CheckItem(block, "parent_beacon_block_root", Fn("validate_32_byte_string")),
              Then(CheckItem(block, "blob_gas_used", Fn("validate_positive_integer")),
                   CheckItem(block, "excess_blob_gas", Fn("validate_positive_integer")))),
          block |-> block]
    ELSE [result |-> OK,
          block |-> SetItem(SetItem(SetItem(block, "parent_beacon_block_root", None),
                                    "blob_gas_used", None),
                            "excess_blob_gas", None)]

\* Mutant: the Prague stage writes None after checking an active field too.
PragueStageAlwaysInjects(block) ==
    IF is_prague_block(block)
    THEN [result |-> CheckItem(block, "requests_hash", Fn("validate_32_byte_string")),
          block |-> SetItem(block, "requests_hash", None)]
    ELSE [result |-> OK, block |-> SetItem(block, "requests_hash", None)]

PragueStage(block) ==
    IF is_prague_block(block)
    THEN [result |-> CheckItem(block, "requests_hash", Fn("validate_32_byte_string")),
          block |-> block]
    ELSE [result |-> OK, block |-> SetItem(block, "requests_hash", None)]

\* Mutant: the Shanghai stage written before the London stage.
STAGES_SHANGHAI_FIRST == <<"shanghai", "london", "cancun", "prague">>

STAGES == <<"london", "shanghai", "cancun", "prague">>

Stage(fork, block) ==
    CASE fork = "london" -> LondonStage(block)
      [] fork = "shanghai" -> ShanghaiStage(block)
      [] fork = "cancun" -> CancunStage(block)
      [] fork = "prague" -> PragueStage(block)

\* The four stages in the order written; a stage that raises ends the pass. block is
\* the caller's record as the pass leaves it, ret what the function returns, trace
\* the stages entered.
RECURSIVE RunStages(_, _)
RunStages(block, i) ==
    IF i > Len(STAGES)
    THEN [result |-> OK, block |-> block, ret |-> block, trace |-> STAGES]
    ELSE LET st == Stage(STAGES[i], block)
         IN  IF st.result # OK
             THEN [result |-> st.result, block |-> st.block, ret |-> Raised,
                   trace |-> SubSeq(STAGES, 1, i)]
             ELSE RunStages(st.block, i + 1)

_validate_fork_specific_fields(block) == RunStages(block, 1)

\* What a validator returns when it does not raise.
ValidatorReturn(r) == IF r = OK THEN None ELSE Raised

\* Mutant: validate_block hands back the resolver's record.
validate_block_returning_block(block) ==
    LET f == _validate_fork_specific_fields(block)
        d == validate_dict(f.ret, BLOCK_VALIDATORS)
    IN  IF f.result # OK THEN f
        ELSE [result |-> d, block |-> f.block, ret |-> IF d = OK THEN f.block ELSE Raised,
              trace |-> Append(f.trace, "schema")]

\* compose(partial(validate_dict, key_validators=BLOCK_VALIDATORS),
\*         _validate_fork_specific_fields)
validate_block(block) ==
    LET f == _validate_fork_specific_fields(block)
        d == validate_dict(f.ret, BLOCK_VALIDATORS)
    IN  IF f.result # OK THEN f
        ELSE [result |-> d, block |-> f.block, ret |-> ValidatorReturn(d),
              trace |-> Append(f.trace, "schema")]

\* ------------------------------------------------------------- inputs

MaxListLen == 2
MaxExtraKeys == 2
MaxDeviations == 2
MaxSignatureV == 40

ListsUpTo(S, n) == UNION {{List(q) : q \in [1..k -> S]} : k \in 0..n}
RECURSIVE SubsetsUpTo(_, _)
SubsetsUpTo(S, n) ==
    IF n = 0 THEN {{}}
    ELSE LET P == SubsetsUpTo(S, n - 1) IN P \cup {T \cup {x} : T \in P, x \in S}

ValueSamples ==
    {None, Bool(TRUE), IntV(-1), IntV(0), IntV(1), IntV(2), IntV(27), IntV(35),
     Pow2(64, -1), Pow2(64, 0), Pow2(256, -1), Pow2(256, 0), Pow2(2048, -1), Pow2(2048, 0),
     Bytes(0), Bytes(8), Bytes(19), Bytes(20), Bytes(31), Bytes(32),
     Str("pending"), Str("final"), List(<<>>), Dict(<<>>)}

\* base with at most one key removed and at most MaxExtraKeys keys of pool added,
\* each added key with the value good gives it.
KeyEdits(base, pool, good) ==
    {Dict([k \in (Keys(base) \ R) \cup A |-> IF k \in A THEN good[k] ELSE base[2][k]]) :
        R \in SubsetsUpTo(Keys(base), 1),
        A \in SubsetsUpTo(pool \ Keys(base), MaxExtraKeys)}

\* base with the value of one key replaced by a sample.
ValueEdits(base, keys) == {SetItem(base, k, v) : k \in keys, v \in ValueSamples}

GoodWithdrawal ==
    Dict("index" :> IntV(0) @@ "validator_index" :> IntV(0)
         @@ "address" :> Bytes(20) @@ "amount" :> IntV(100))

WithdrawalInputs ==
    KeyEdits(GoodWithdrawal, {"bogus", "extra", "hash"},
             [k \in {"bogus", "extra", "hash"} |-> IntV(1)])
    \cup ValueEdits(GoodWithdrawal, Keys(GoodWithdrawal))
    \cup {None, List(<<>>)}

GoodLogEntry ==
    Dict("type" :> Str("mined") @@ "log_index" :> IntV(0)
         @@ "transaction_index" :> IntV(0) @@ "transaction_hash" :> Bytes(32)
         @@ "block_hash" :> Bytes(32) @@ "block_number" :> IntV(1)
         @@ "address" :> Bytes(20) @@ "data" :> Bytes(0)
         @@ "topics" :> List(<<Bytes(32)>>))

LogEntryInputs ==
    KeyEdits(GoodLogEntry, {"bogus", "removed"},
             [k \in {"bogus", "removed"} |-> Bool(TRUE)])
    \cup ValueEdits(GoodLogEntry, Keys(GoodLogEntry))

AccessListEntrySamples ==
    {List(<<Bytes(20), List(<<IntV(1), IntV(2)>>)>>),
     List(<<Bytes(20), List(<<>>)>>),
     List(<<Bytes(20), List(<<IntV(1)>>), IntV(9)>>),
     List(<<Bytes(19), List(<<IntV(1), IntV(2)>>)>>),
     List(<<Bytes(20), List(<<IntV(-1)>>)>>),
     List(<<Bytes(20), List(<<Bytes(32)>>)>>),
     List(<<Bytes(20), IntV(1)>>),
     List(<<Bytes(20)>>),
     List(<<>>),
     None, IntV(5), Bytes(2), Bytes(20), Str("ab"),
     Dict("address" :> Bytes(20) @@ "storage_keys" :> List(<<>>))}

AccessListInputs == ListsUpTo(AccessListEntrySamples, MaxListLen) \cup {None, Bytes(20)}

GoodAuthorization ==
    Dict("chain_id" :> IntV(1) @@ "address" :> Bytes(20) @@ "nonce" :> IntV(0)
         @@ "y_parity" :> IntV(1) @@ "r" :> Pow2(256, -1) @@ "s" :> IntV(1))

AuthorizationEntrySamples ==
    {GoodAuthorization,
     SetItem(GoodAuthorization, "nonce", Pow2(64, -1)),
     SetItem(GoodAuthorization, "signer", Bytes(20)),
     SetItem(DelItem(GoodAuthorization, "nonce"), "chain_id", Pow2(256, 0)),
     SetItem(GoodAuthorization, "chain_id", Pow2(256, 0)),
     SetItem(GoodAuthorization, "address", Bytes(19)),
     SetItem(GoodAuthorization, "nonce", Pow2(64, 0)),
     SetItem(GoodAuthorization, "y_parity", IntV(2)),
     SetItem(GoodAuthorization, "r", IntV(-1)),
     SetItem(GoodAuthorization, "s", None),
     None, IntV(1), Bytes(20), Str("ab"), Dict(<<>>),
     List(<<Str("chain_id"), Str("address")>>),
     List(<<Str("chain_id"), Str("address"), Str("nonce"),
            Str("y_parity"), Str("r"), Str("s")>>)}
    \cup {DelItem(GoodAuthorization, k) : k \in AUTHORIZATION_KEYS}

AuthorizationListInputs ==
    ListsUpTo(AuthorizationEntrySamples, MaxListLen) \cup {None, GoodAuthorization}

LegacyTx ==
    Dict("type" :> IntV(0) @@ "hash" :> Bytes(32) @@ "nonce" :> IntV(1)
         @@ "block_hash" :> Bytes(32) @@ "block_number" :> IntV(1)
         @@ "transaction_index" :> IntV(0) @@ "from" :> Bytes(20) @@ "to" :> Bytes(20)
         @@ "value" :> IntV(1) @@ "gas" :> IntV(21000) @@ "gas_price" :> IntV(1)
         @@ "data" :> Bytes(0) @@ "v" :> IntV(27) @@ "r" :> IntV(1) @@ "s" :> IntV(1))

AccessListTx ==
    Dict(("type" :> IntV(1) @@ "v" :> IntV(1) @@ "y_parity" :> IntV(1)
          @@ "chain_id" :> IntV(1)
          @@ "access_list" :> List(<<List(<<Bytes(20), List(<<IntV(1)>>)>>)>>))
         @@ LegacyTx[2])

DynamicFeeTx ==
    Dict(("type" :> IntV(2) @@ "max_fee_per_gas" :> IntV(2)
          @@ "max_priority_fee_per_gas" :> IntV(1)) @@ AccessListTx[2])

BlobTx ==
    Dict(("type" :> IntV(3) @@ "max_fee_per_blob_gas" :> IntV(1)
          @@ "blob_versioned_hashes" :> List(<<Bytes(32)>>)) @@ DynamicFeeTx[2])

SetCodeTx ==
    Dict(("type" :> IntV(4) @@ "authorization_list" :> List(<<GoodAuthorization>>))
         @@ DynamicFeeTx[2])

TxBases == {LegacyTx, AccessListTx, DynamicFeeTx, BlobTx, SetCodeTx}

TxKeyPool == Keys(BlobTx) \cup Keys(SetCodeTx) \cup {"bogus"}
TxGood == [k \in TxKeyPool |->
              IF k \in Keys(BlobTx) THEN BlobTx[2][k]
              ELSE IF k \in Keys(SetCodeTx) THEN SetCodeTx[2][k]
              ELSE None]

\* Typed records whose access list or authorization list holds one ill-formed entry.
TxListEdits ==
    {SetItem(AccessListTx, "access_list", List(<<e>>)) :
        e \in {None, IntV(5), Bytes(2), List(<<Bytes(20)>>), List(<<Bytes(19), List(<<>>)>>)}}
    \cup {SetItem(SetCodeTx, "authorization_list", List(<<e>>)) :
            e \in {None, DelItem(GoodAuthorization, "nonce"),
                   SetItem(GoodAuthorization, "y_parity", IntV(2))}}

TransactionInputs ==
    UNION {KeyEdits(b, TxKeyPool, TxGood) \cup ValueEdits(b, Keys(b)) : b \in TxBases}
    \cup TxListEdits
    \cup {None, Bytes(32)}

SignatureVInputs ==
    {IntV(n) : n \in -2..MaxSignatureV}
    \cup {Pow2(64, 0), Pow2(256, -1), Pow2(256, 0), Pow2(2048, 0),
          None, Bool(TRUE), Bytes(1), Str("27")}

BaseReceipt ==
    Dict("transaction_hash" :> Bytes(32) @@ "transaction_index" :> IntV(0)
         @@ "block_number" :> IntV(1) @@ "block_hash" :> Bytes(32)
         @@ "cumulative_gas_used" :> IntV(21000) @@ "effective_gas_price" :> IntV(1)
         @@ "from" :> Bytes(20) @@ "gas_used" :> IntV(21000)
         @@ "contract_address" :> None @@ "logs" :> List(<<GoodLogEntry>>)
         @@ "state_root" :> Bytes(1) @@ "status" :> IntV(1) @@ "to" :> Bytes(20)
         @@ "type" :> IntV(2))

CancunReceipt ==
    Dict(("blob_gas_used" :> IntV(0) @@ "blob_gas_price" :> IntV(1)) @@ BaseReceipt[2])

ReceiptKeyPool == {"blob_gas_used", "blob_gas_price", "bogus"}

ReceiptInputs ==
    UNION {KeyEdits(b, ReceiptKeyPool, [k \in ReceiptKeyPool |-> IntV(1)])
           \cup ValueEdits(b, Keys(b)) : b \in {BaseReceipt, CancunReceipt}}

AccountsInputs ==
    ListsUpTo({Bytes(20), Bytes(19), Bytes(32), None, IntV(1), Str("ab")}, MaxListLen)
    \cup {None, Bytes(20)}

\* ---- blocks

NonForkBlock ==
    Dict("number" :> IntV(1) @@ "hash" :> Bytes(32) @@ "parent_hash" :> Bytes(32)
         @@ "nonce" :> Bytes(8) @@ "sha3_uncles" :> Bytes(32) @@ "logs_bloom" :> IntV(0)
         @@ "transactions_root" :> Bytes(32) @@ "receipts_root" :> Bytes(32)
         @@ "state_root" :> Bytes(32) @@ "coinbase" :> Bytes(20)
         @@ "difficulty" :> IntV(0) @@ "mix_hash" :> Bytes(32)
         @@ "total_difficulty" :> IntV(0) @@ "size" :> IntV(500)
         @@ "extra_data" :> Bytes(32) @@ "gas_limit" :> IntV(30000)
         @@ "gas_used" :> IntV(0) @@ "timestamp" :> IntV(1)
         @@ "transactions" :> List(<<>>) @@ "uncles" :> List(<<>>))

LondonFields == {"base_fee_per_gas"}
ShanghaiFields == {"withdrawals", "withdrawals_root"}
CancunFields == {"parent_beacon_block_root", "blob_gas_used", "excess_blob_gas"}
PragueFields == {"requests_hash"}
ForkFields == LondonFields \cup ShanghaiFields \cup CancunFields \cup PragueFields

ForkOf(field) ==
    CASE field \in LondonFields -> "london"
      [] field \in ShanghaiFields -> "shanghai"
      [] field \in CancunFields -> "cancun"
      [] field \in PragueFields -> "prague"

ForkFieldsOf(fork) ==
    CASE fork = "london" -> LondonFields
      [] fork = "shanghai" -> ShanghaiFields
      [] fork = "cancun" -> CancunFields
      [] fork = "prague" -> PragueFields

Forks == {"london", "shanghai", "cancun", "prague"}
VMs == [Forks -> BOOLEAN]

GoodForkValue ==
    "base_fee_per_gas" :> IntV(7) @@ "withdrawals" :> List(<<GoodWithdrawal>>)
    @@ "withdrawals_root" :> Bytes(32) @@ "parent_beacon_block_root" :> Bytes(32)
    @@ "blob_gas_used" :> IntV(0) @@ "excess_blob_gas" :> IntV(0)
    @@ "requests_hash" :> Bytes(32)

BadForkValue ==
    "base_fee_per_gas" :> IntV(-1)
    @@ "withdrawals" :> List(<<SetItem(GoodWithdrawal, "amount", Pow2(64, 0))>>)
    @@ "withdrawals_root" :> Bytes(31) @@ "parent_beacon_block_root" :> Bytes(31)
    @@ "blob_gas_used" :> Str("final") @@ "excess_blob_gas" :> IntV(-1)
    @@ "requests_hash" :> Bytes(20)

Options == {"absent", "none", "good", "bad"}

\* The fork fields a backend gives a block of protocol version v: those of the forks
\* v has, well-formed.
Natural(v) == [f \in ForkFields |-> IF v[ForkOf(f)] THEN "good" ELSE "absent"]
AllGood == [f \in ForkFields |-> "good"]

Profiles(base) ==
    UNION {{[f \in ForkFields |-> IF f \in D THEN o[f] ELSE base[f]] : o \in [D -> Options]} :
           D \in SubsetsUpTo(ForkFields, MaxDeviations)}

WithForkFields(block, profile) ==
    Dict([k \in Keys(block) \cup {f \in ForkFields : profile[f] # "absent"} |->
            IF k \in ForkFields
            THEN CASE profile[k] = "none" -> None
                   [] profile[k] = "good" -> GoodForkValue[k]
                   [] profile[k] = "bad" -> BadForkValue[k]
            ELSE block[2][k]])

TxElements ==
    {Bytes(32), Bytes(31), LegacyTx, AccessListTx, DynamicFeeTx, BlobTx, SetCodeTx,
     SetItem(LegacyTx, "hash", Bytes(31))}

NonForkEdits ==
    {SetItem(NonForkBlock, "transactions", t) : t \in ListsUpTo(TxElements, MaxListLen)}
    \cup KeyEdits(NonForkBlock, {"bogus"}, [k \in {"bogus"} |-> None])
    \cup ValueEdits(NonForkBlock, Keys(NonForkBlock) \ {"transactions"})

London == [f \in Forks |-> f = "london"]
Prague == [f \in Forks |-> TRUE]

\* The blocks validated under protocol version v.
BlockCases(v) ==
    {WithForkFields(NonForkBlock, p) : p \in Profiles(Natural(v)) \cup Profiles(AllGood)}
    \cup (IF v \in {London, Prague}
          THEN {WithForkFields(b, Natural(v)) : b \in NonForkEdits}
          ELSE {})

Calls ==
    {"validate_block", "validate_transaction", "validate_receipt", "validate_accounts",
     "validate_withdrawal", "validate_log_entry", "_validate_outbound_access_list",
     "_validate_outbound_authorization_list", "validate_signature_v"}

Inputs(c) ==
    CASE c = "validate_transaction" -> TransactionInputs
      [] c = "validate_receipt" -> ReceiptInputs
      [] c = "validate_accounts" -> AccountsInputs
      [] c = "validate_withdrawal" -> WithdrawalInputs
      [] c = "validate_log_entry" -> LogEntryInputs
      [] c = "_validate_outbound_access_list" -> AccessListInputs
      [] c = "_validate_outbound_authorization_list" -> AuthorizationListInputs
      [] c = "validate_signature_v" -> SignatureVInputs

NoVM == [f \in Forks |-> FALSE]

\* ------------------------------------------------------------- the machine

\* A call is drawn (entry point, argument and, for a block, the protocol version it
\* was made under); the entry point's action runs it.
Init ==
    /\ pc = "ready"
    /\ \/ /\ call = "validate_block"
          /\ \E v \in VMs : vm = v /\ arg \in BlockCases(v)
       \/ /\ call \in Calls \ {"validate_block"}
          /\ arg \in Inputs(call)
          /\ vm = NoVM
    /\ result = "pending"
    /\ ret = Raised
    /\ after = arg
    /\ trace = <<>>

ValidateBlock ==
    /\ pc = "ready"
    /\ call = "validate_block"
    /\ LET r == validate_block(arg)
       IN  /\ result' = r.result
           /\ ret' = r.ret
           /\ after' = r.block
           /\ trace' = r.trace
    /\ pc' = "done"
    /\ UNCHANGED <<call, arg, vm>>

\* An entry point that is one validator reads its argument and returns nothing.
Returns(name, r) ==
    /\ result' = r
    /\ ret' = ValidatorReturn(r)
    /\ after' = arg
    /\ trace' = <<name>>

ValidateTransaction ==
    /\ pc = "ready"
    /\ call = "validate_transaction"
    /\ Returns(call, Apply(validate_transaction, arg))
    /\ pc' = "done"
    /\ UNCHANGED <<call, arg, vm>>

ValidateReceipt ==
    /\ pc = "ready"
    /\ call = "validate_receipt"
    /\ Returns(call, Apply(validate_receipt, arg))
    /\ pc' = "done"
    /\ UNCHANGED <<call, arg, vm>>

ValidateAccounts ==
    /\ pc = "ready"
    /\ call = "validate_accounts"
    /\ Returns(call, Apply(validate_accounts, arg))
    /\ pc' = "done"
    /\ UNCHANGED <<call, arg, vm>>

ValidateWithdrawal ==
    /\ pc = "ready"
    /\ call = "validate_withdrawal"
    /\ Returns(call, Apply(validate_withdrawal, arg))
    /\ pc' = "done"
    /\ UNCHANGED <<call, arg, vm>>

ValidateLogEntry ==
    /\ pc = "ready"
    /\ call = "validate_log_entry"
    /\ Returns(call, Apply(validate_log_entry, arg))
    /\ pc' = "done"
    /\ UNCHANGED <<call, arg, vm>>

ValidateAccessList ==
    /\ pc = "ready"
    /\ call = "_validate_outbound_access_list"
    /\ Returns(call, _validate_outbound_access_list(arg))
    /\ pc' = "done"
    /\ UNCHANGED <<call, arg, vm>>

ValidateAuthorizationList ==
    /\ pc = "ready"
    /\ call = "_validate_outbound_authorization_list"
    /\ Returns(call, _validate_outbound_authorization_list(arg))
    /\ pc' = "done"
    /\ UNCHANGED <<call, arg, vm>>

ValidateSignatureV ==
    /\ pc = "ready"
    /\ call = "validate_signature_v"
    /\ Returns(call, validate_signature_v(arg))
    /\ pc' = "done"
    /\ UNCHANGED <<call, arg, vm>>

Next ==
    \/ ValidateBlock
    \/ ValidateTransaction
    \/ ValidateReceipt
    \/ ValidateAccounts
    \/ ValidateWithdrawal
    \/ ValidateLogEntry
    \/ ValidateAccessList
    \/ ValidateAuthorizationList
    \/ ValidateSignatureV

Spec == Init /\ [][Next]_vars

\* ------------------------------------------------------------- properties

Done == pc = "done"
BlockDone == pc = "done" /\ call = "validate_block"
\* The resolver ran all four stages and handed the block to the schema validation.
ResolverCompleted == Len(trace) = Len(STAGES) + 1

\* The key sets the specification gives the schemas.
WithdrawalKeys == {"index", "validator_index", "address", "amount"}
LogEntryKeys ==
    {"type", "log_index", "transaction_index", "transaction_hash", "block_hash",
     "block_number", "address", "data", "topics"}
LegacyKeys ==
    {"type", "hash", "nonce", "block_hash", "block_number", "transaction_index", "from",
     "to", "value", "gas", "gas_price", "data", "v", "r", "s"}
AccessListKeys == LegacyKeys \cup {"y_parity", "chain_id", "access_list"}
DynamicFeeKeys == AccessListKeys \cup {"max_fee_per_gas", "max_priority_fee_per_gas"}
BlobKeys == DynamicFeeKeys \cup {"max_fee_per_blob_gas", "blob_versioned_hashes"}
SetCodeKeys == DynamicFeeKeys \cup {"authorization_list"}
ReceiptKeys ==
    {"transaction_hash", "transaction_index", "block_number", "block_hash",
     "cumulative_gas_used", "effective_gas_price", "from", "gas_used", "contract_address",
     "logs", "state_root", "status", "to", "type"}
CancunReceiptKeys == ReceiptKeys \cup {"blob_gas_used", "blob_gas_price"}
NonForkKeys ==
    {"number", "hash", "parent_hash", "nonce", "sha3_uncles", "logs_bloom",
     "transactions_root", "receipts_root", "state_root", "coinbase", "difficulty",
     "mix_hash", "total_difficulty", "size", "extra_data", "gas_limit", "gas_used",
     "timestamp", "transactions", "uncles"}
BlockKeys == NonForkKeys \cup ForkFields

TransactionSchemas ==
    << LEGACY_TRANSACTION_VALIDATORS, ACCESS_LIST_TRANSACTION_VALIDATORS,
       DYNAMIC_FEE_TRANSACTION_VALIDATORS, BLOB_TRANSACTION_VALIDATORS,
       SET_CODE_TRANSACTION_VALIDATORS >>
TransactionKeySets == {LegacyKeys, AccessListKeys, DynamicFeeKeys, BlobKeys, SetCodeKeys}

InactiveFields == {f \in ForkFields : ~vm[ForkOf(f)]}

\* C1: once the resolver has run to completion, every field of every fork whose
\* predicate is false is in the block and is None, for any combination of the four
\* predicates and whatever the input block held under that key.
C1_InactiveForkFieldsNull ==
    (BlockDone /\ ResolverCompleted) =>
        \A f \in InactiveFields : HasKey(after, f) /\ GetItem(after, f) = None

\* C1 witness: predicates that are not monotonic (Cancun without London), an inactive
\* field the input held with a value and one it did not hold, both None afterwards.
C1_Witness ==
    /\ BlockDone /\ ResolverCompleted
    /\ ~vm["london"] /\ vm["cancun"]
    /\ HasKey(arg, "base_fee_per_gas") /\ GetItem(arg, "base_fee_per_gas") = IntV(7)
    /\ ~HasKey(arg, "withdrawals")
    /\ GetItem(after, "base_fee_per_gas") = None
    /\ GetItem(after, "withdrawals") = None

NonForkFieldsValid(block) ==
    /\ Keys(block) \ ForkFields = NonForkKeys
    /\ \A i \in DOMAIN BLOCK_VALIDATORS :
          BLOCK_VALIDATORS[i][1] \in NonForkKeys =>
              Apply(BLOCK_VALIDATORS[i][2], GetItem(block, BLOCK_VALIDATORS[i][1])) = OK

LondonOnlyBlock ==
    /\ BlockDone
    /\ vm = London
    /\ HasKey(arg, "base_fee_per_gas")
    /\ validate_positive_integer(GetItem(arg, "base_fee_per_gas")) = OK
    /\ NonForkFieldsValid(arg)

\* C2: a London block (no later fork) with a non-negative integer base fee and valid
\* non-fork fields passes validate_block; base_fee_per_gas keeps its value, withdrawals
\* and withdrawals_root are None, and the schema accepts all three.
C2_LondonBlockValidates ==
    LondonOnlyBlock =>
        /\ result = OK
        /\ GetItem(after, "base_fee_per_gas") = GetItem(arg, "base_fee_per_gas")
        /\ GetItem(after, "withdrawals") = None
        /\ GetItem(after, "withdrawals_root") = None
        /\ \A f \in {"base_fee_per_gas", "withdrawals", "withdrawals_root"} :
              Apply(SchemaValidator(BLOCK_VALIDATORS, f), GetItem(after, f)) = OK

\* C2 witness: such a block that came without the Shanghai keys and passed.
C2_Witness ==
    /\ LondonOnlyBlock
    /\ ~HasKey(arg, "withdrawals") /\ ~HasKey(arg, "withdrawals_root")
    /\ result = OK
    /\ GetItem(after, "base_fee_per_gas") = IntV(7)

FieldWellFormed(f, v) ==
    CASE f = "base_fee_per_gas" -> validate_positive_integer(v) = OK
      [] f = "withdrawals" -> validate_array(v, validate_withdrawal) = OK
      [] f = "withdrawals_root" -> validate_32_byte_string(v) = OK
      [] f = "parent_beacon_block_root" -> validate_32_byte_string(v) = OK
      [] f = "blob_gas_used" -> validate_positive_integer(v) = OK
      [] f = "excess_blob_gas" -> validate_positive_integer(v) = OK
      [] f = "requests_hash" -> validate_32_byte_string(v) = OK

\* C3: when a field of a fork whose predicate is true holds an ill-formed value (None
\* included), validate_block fails with ValidationError.
C3_IllFormedActiveFieldIsValidationError ==
    (BlockDone /\ \E f \in ForkFields \ InactiveFields :
                      HasKey(arg, f) /\ ~FieldWellFormed(f, GetItem(arg, f)))
        => result = ValidationError

InjectionsVisible ==
    /\ Keys(after) = Keys(arg) \cup InactiveFields
    /\ \A k \in Keys(after) :
          GetItem(after, k) = IF k \in InactiveFields THEN None ELSE GetItem(arg, k)

\* C4 as stated: on success validate_block returns the block record it was given.
C4_ReturnsTheBlock == (BlockDone /\ result = OK) => ret = after

\* C4 amended: on success validate_block returns nothing (None, what the schema
\* validation returns) and the caller's record carries the resolver's injections; on
\* failure it raises.
C4_ReturnsNoneBlockMutatedInPlace ==
    BlockDone =>
        /\ result = OK => (ret = None /\ InjectionsVisible)
        /\ result # OK => ret = Raised

\* C4 witness: a successful call that changed the caller's record and returned None.
C4_Witness == BlockDone /\ result = OK /\ ret = None /\ after # arg

AllMatch(txs, key_validators) ==
    \A i \in DOMAIN txs[2] : validate_dict(txs[2][i], key_validators) = OK
AllHashes(txs) == \A i \in DOMAIN txs[2] : validate_32_byte_string(txs[2][i]) = OK
TransactionsCheck(txs) == Apply(SchemaValidator(BLOCK_VALIDATORS, "transactions"), txs)

HasTransactionList ==
    BlockDone /\ HasKey(arg, "transactions") /\ is_list_like(GetItem(arg, "transactions"))

\* C5: the transactions check of the block schema accepts a list of 32-byte hashes and,
\* for each of the five transaction kinds, a non-empty list of records of that kind.
C5_TransactionsOfAnyOneKindAccepted ==
    HasTransactionList =>
        LET txs == GetItem(arg, "transactions")
        IN  (\/ AllHashes(txs)
             \/ \E n \in DOMAIN TransactionSchemas :
                   PyLen(txs) > 0 /\ AllMatch(txs, TransactionSchemas[n]))
            => TransactionsCheck(txs) = OK

KindOf(e) ==
    CASE validate_32_byte_string(e) = OK -> "hash"
      [] validate_dict(e, LEGACY_TRANSACTION_VALIDATORS) = OK -> "legacy"
      [] validate_dict(e, ACCESS_LIST_TRANSACTION_VALIDATORS) = OK -> "access-list"
      [] validate_dict(e, DYNAMIC_FEE_TRANSACTION_VALIDATORS) = OK -> "dynamic-fee"
      [] validate_dict(e, BLOB_TRANSACTION_VALIDATORS) = OK -> "blob"
      [] validate_dict(e, SET_CODE_TRANSACTION_VALIDATORS) = OK -> "set-code"
      [] OTHER -> "ill-formed"

MixedKinds(txs) ==
    /\ \A i \in DOMAIN txs[2] : KindOf(txs[2][i]) # "ill-formed"
    /\ \E i, j \in DOMAIN txs[2] : KindOf(txs[2][i]) # KindOf(txs[2][j])

\* C6: a transactions list of well-formed elements of two different kinds (records of
\* two kinds, or hashes and records) fails the transactions check, and validate_block
\* with it, with ValidationError.
C6_MixedKindsRejected ==
    (HasTransactionList /\ MixedKinds(GetItem(arg, "transactions"))) =>
        /\ TransactionsCheck(GetItem(arg, "transactions")) = ValidationError
        /\ result # OK
        /\ ResolverCompleted => result = ValidationError

\* C6 witness: a block with one legacy and one dynamic-fee record, rejected by the
\* schema validation.
C6_Witness ==
    /\ HasTransactionList
    /\ GetItem(arg, "transactions") = List(<<LegacyTx, DynamicFeeTx>>)
    /\ ResolverCompleted
    /\ result = ValidationError

TransactionDone == pc = "done" /\ call = "validate_transaction"

\* C7: validate_transaction succeeds exactly when one of the five schemas accepts the
\* whole record; a record whose key set is none of the five key sets (and anything that
\* is no record) fails with ValidationError, and a well-formed access-list record passes.
C7_TransactionUnion ==
    TransactionDone =>
        /\ result = OK <=>
              \E n \in DOMAIN TransactionSchemas :
                  validate_dict(arg, TransactionSchemas[n]) = OK
        /\ (~is_dict(arg) \/ Keys(arg) \notin TransactionKeySets) => result = ValidationError
        /\ arg = AccessListTx => result = OK
        /\ arg = SetCodeTx => result = OK

\* C7 witness: legacy keys plus access_list and max_fee_per_gas only, rejected.
C7_Witness ==
    /\ TransactionDone
    /\ is_dict(arg)
    /\ Keys(arg) = LegacyKeys \cup {"access_list", "max_fee_per_gas"}
    /\ result = ValidationError

RecordSchemas ==
    << <<WITHDRAWAL_VALIDATORS, WithdrawalKeys>>,
       <<LOG_ENTRY_VALIDATORS, LogEntryKeys>>,
       <<LEGACY_TRANSACTION_VALIDATORS, LegacyKeys>>,
       <<ACCESS_LIST_TRANSACTION_VALIDATORS, AccessListKeys>>,
       <<DYNAMIC_FEE_TRANSACTION_VALIDATORS, DynamicFeeKeys>>,
       <<BLOB_TRANSACTION_VALIDATORS, BlobKeys>>,
       <<SET_CODE_TRANSACTION_VALIDATORS, SetCodeKeys>>,
       <<RECEIPT_VALIDATORS, ReceiptKeys>>,
       <<CANCUN_RECEIPT_VALIDATORS, CancunReceiptKeys>>,
       <<BLOCK_VALIDATORS, BlockKeys>> >>

AllKeys ==
    WithdrawalKeys \cup LogEntryKeys \cup BlobKeys \cup SetCodeKeys \cup CancunReceiptKeys
    \cup BlockKeys \cup {"bogus"}

\* C8: a record (for a block, the record the resolver hands to the schema) that one of
\* the ten record schemas accepts has exactly the keys of that schema; with any one of
\* its keys removed, or any one other key added, that schema rejects it.
C8_ExactKeySet ==
    (Done /\ is_dict(after)) =>
        \A n \in DOMAIN RecordSchemas :
            LET S == RecordSchemas[n][1]
            IN  validate_dict(after, S) = OK =>
                    /\ Keys(after) = RecordSchemas[n][2]
                    /\ \A k \in Keys(after) : validate_dict(DelItem(after, k), S) # OK
                    /\ \A k \in AllKeys \ Keys(after) :
                          \A v \in {None, Bytes(32)} :
                              validate_dict(SetItem(after, k, v), S) # OK

\* C8 witness: a withdrawal that validate_withdrawal accepted.
C8_Witness ==
    /\ Done /\ call = "validate_withdrawal" /\ result = OK
    /\ Keys(arg) = WithdrawalKeys

WellFormedAuthorization(auth) ==
    /\ is_dict(auth)
    /\ Keys(auth) = {"chain_id", "address", "nonce", "y_parity", "r", "s"}
    /\ validate_uint256(GetItem(auth, "chain_id")) = OK
    /\ validate_canonical_address(GetItem(auth, "address")) = OK
    /\ validate_uint64(GetItem(auth, "nonce")) = OK
    /\ validate_y_parity(GetItem(auth, "y_parity")) = OK
    /\ validate_uint256(GetItem(auth, "r")) = OK
    /\ validate_uint256(GetItem(auth, "s")) = OK

\* C9: the authorization-list validator accepts a list only if every entry is a
\* mapping with exactly the six keys, each value in range; a mapping with an additional
\* key or a missing key is rejected with ValidationError.
C9_AuthorizationEntriesExact ==
    (Done /\ call = "_validate_outbound_authorization_list" /\ is_list_like(arg)) =>
        /\ result = OK => \A i \in DOMAIN arg[2] : WellFormedAuthorization(arg[2][i])
        /\ (\E i \in DOMAIN arg[2] :
                /\ is_dict(arg[2][i])
                /\ Keys(arg[2][i]) # {"chain_id", "address", "nonce", "y_parity", "r", "s"})
           => result = ValidationError

WellFormedAccessEntry(entry) ==
    /\ is_list_like(entry)
    /\ PyLen(entry) = 2
    /\ is_bytes(entry[2][1]) /\ PyLen(entry[2][1]) = 20
    /\ is_list_like(entry[2][2])
    /\ \A i \in DOMAIN entry[2][2][2] : validate_positive_integer(entry[2][2][2][i]) = OK

BadAccessEntry(entry) ==
    /\ is_list_like(entry)
    /\ \/ PyLen(entry) >= 3
       \/ PyLen(entry) = 2 /\ is_bytes(entry[2][1]) /\ PyLen(entry[2][1]) = 19
       \/ /\ PyLen(entry) = 2 /\ is_list_like(entry[2][2])
          /\ \E i \in DOMAIN entry[2][2][2] :
                is_integer(entry[2][2][2][i]) /\ IntLt(entry[2][2][2][i][2], <<0, 0>>)

\* C10: the access-list validator accepts a list only if every entry is a pair of a
\* 20-byte string and a sequence of non-negative integers; an entry of three or more
\* elements, one with a 19-byte address and one with a negative storage key are each
\* rejected with ValidationError.
C10_AccessEntriesArePairs ==
    (Done /\ call = "_validate_outbound_access_list" /\ is_list_like(arg)) =>
        /\ result = OK => \A i \in DOMAIN arg[2] : WellFormedAccessEntry(arg[2][i])
        /\ (\E i \in DOMAIN arg[2] : BadAccessEntry(arg[2][i])) => result = ValidationError

EntryPoints ==
    {"validate_block", "validate_transaction", "validate_receipt", "validate_accounts",
     "validate_withdrawal"}

\* C11: a call of an entry point either returns normally or fails with
\* ValidationError, whatever the input: no other kind of failure comes out.
C11_OnlyValidationError ==
    (Done /\ call \in EntryPoints) => result \in {OK, ValidationError}

LegalSignatureV(v) ==
    \/ v \in {<<0, 0>>, <<0, 1>>, <<0, 27>>, <<0, 28>>}
    \/ IntLeq(<<0, 35>>, v)

\* C12: validate_signature_v accepts the integers 0, 1, 27, 28 and every integer from
\* 35 up, however large, and rejects every other integer with ValidationError.
C12_SignatureVUnbounded ==
    (Done /\ call = "validate_signature_v" /\ is_integer(arg)) =>
        /\ result = OK <=> LegalSignatureV(arg[2])
        /\ result # OK => result = ValidationError

WithdrawalDone == pc = "done" /\ call = "validate_withdrawal"

\* An integer of [0, 2^64 - 1].
InUint64Range(v) == is_integer(v) /\ IntLeq(<<0, 0>>, v[2]) /\ IntLeq(v[2], <<64, -1>>)

WithdrawalIntegerKeys == {"index", "validator_index", "amount"}

\* C13: validate_withdrawal accepts a record exactly when its keys are index,
\* validator_index, address and amount, the three integers lie in [0, 2^64 - 1] and
\* address is a 20-byte string; 0 and 2^64 - 1 pass in each integer field, -1 and 2^64
\* fail in each.
C13_WithdrawalRange ==
    WithdrawalDone =>
        /\ result = OK <=>
              /\ is_dict(arg)
              /\ Keys(arg) = WithdrawalKeys
              /\ \A k \in WithdrawalIntegerKeys : InUint64Range(GetItem(arg, k))
              /\ is_bytes(GetItem(arg, "address")) /\ PyLen(GetItem(arg, "address")) = 20
        /\ \A k \in WithdrawalIntegerKeys :
              /\ arg \in {SetItem(GoodWithdrawal, k, IntV(0)),
                          SetItem(GoodWithdrawal, k, Pow2(64, -1))} => result = OK
              /\ arg \in {SetItem(GoodWithdrawal, k, IntV(-1)),
                          SetItem(GoodWithdrawal, k, Pow2(64, 0))} => result = ValidationError

\* C13 witness: a withdrawal of amount 2^64 - 1, accepted.
C13_Witness ==
    /\ WithdrawalDone
    /\ arg = SetItem(GoodWithdrawal, "amount", Pow2(64, -1))
    /\ result = OK

ReceiptDone == pc = "done" /\ call = "validate_receipt"

BlobReceiptKeys == {"blob_gas_used", "blob_gas_price"}

\* C14: validate_receipt succeeds exactly when the base receipt schema or the Cancun
\* receipt schema accepts the whole record; base keys plus one of the two blob fields
\* fail; an accepted record has status 0 or 1 and, when it has the blob fields, both
\* are integers >= 0.
C14_ReceiptUnion ==
    ReceiptDone =>
        /\ result = OK <=>
              \/ validate_dict(arg, RECEIPT_VALIDATORS) = OK
              \/ validate_dict(arg, CANCUN_RECEIPT_VALIDATORS) = OK
        /\ \A b \in BlobReceiptKeys :
              (is_dict(arg) /\ Keys(arg) = ReceiptKeys \cup {b}) => result = ValidationError
        /\ result = OK =>
              /\ Keys(arg) \in {ReceiptKeys, ReceiptKeys \cup BlobReceiptKeys}
              /\ GetItem(arg, "status") \in {IntV(0), IntV(1)}
              /\ \A b \in BlobReceiptKeys \cap Keys(arg) :
                    is_integer(GetItem(arg, b)) /\ IntLeq(<<0, 0>>, GetItem(arg, b)[2])

\* C14 witness: the base keys and blob_gas_used without blob_gas_price, rejected.
C14_Witness ==
    /\ ReceiptDone
    /\ is_dict(arg)
    /\ Keys(arg) = ReceiptKeys \cup {"blob_gas_used"}
    /\ result = ValidationError

NullableKeys ==
    {"block_hash", "block_number", "transaction_index", "effective_gas_price",
     "contract_address"}

\* The sentinel of a wrapped field and the check the wrapper delegates to.
SentinelOf(k) == IF k = "to" THEN CREATE_CONTRACT_ADDRESS ELSE None
WrappedCheck(k, v) ==
    CASE k = "block_hash" -> validate_32_byte_string(v)
      [] k \in {"block_number", "transaction_index", "effective_gas_price"} ->
            validate_positive_integer(v)
      [] k \in {"contract_address", "to"} -> validate_canonical_address(v)

SchemasOf(c) ==
    CASE c = "validate_log_entry" -> << LOG_ENTRY_VALIDATORS >>
      [] c = "validate_transaction" -> TransactionSchemas
      [] c = "validate_receipt" -> << RECEIPT_VALIDATORS, CANCUN_RECEIPT_VALIDATORS >>

OthersValid(rec, S, k) ==
    \A i \in DOMAIN S :
        S[i][1] # k => Apply(S[i][2], GetItem(rec, S[i][1])) = OK

\* C15: in a log entry, transaction or receipt whose other fields are valid, a field
\* bound through if_not_null (block_hash, block_number, transaction_index, and the
\* receipt's effective_gas_price and contract_address) is accepted when it is None and
\* otherwise exactly when the wrapped check accepts it; to is accepted when it is the
\* contract-creation sentinel and otherwise exactly when it is a 20-byte address.
C15_SentinelSkipsWrappedCheck ==
    (Done /\ call \in {"validate_log_entry", "validate_transaction", "validate_receipt"}
          /\ is_dict(arg)) =>
        \A n \in DOMAIN SchemasOf(call) :
            LET S == SchemasOf(call)[n]
            IN  Keys(arg) = SchemaKeys(S) =>
                    \A k \in SchemaKeys(S) \cap (NullableKeys \cup {"to"}) :
                        OthersValid(arg, S, k) =>
                            /\ result = OK <=>
                                  \/ GetItem(arg, k) = SentinelOf(k)
                                  \/ WrappedCheck(k, GetItem(arg, k)) = OK
                            /\ result # OK => result = ValidationError

\* C15 witness: a log entry whose block_hash is None, accepted.
C15_Witness ==
    /\ Done /\ call = "validate_log_entry"
    /\ arg = SetItem(GoodLogEntry, "block_hash", None)
    /\ result = OK

\* S has the keys of T and those of added, and checks every key of T outside changed
\* as T does.
Extends(S, T, added, changed) ==
    /\ SchemaKeys(S) = SchemaKeys(T) \cup added
    /\ \A k \in SchemaKeys(T) \ changed : SchemaValidator(S, k) = SchemaValidator(T, k)

TypedSchemas ==
    << ACCESS_LIST_TRANSACTION_VALIDATORS, DYNAMIC_FEE_TRANSACTION_VALIDATORS,
       BLOB_TRANSACTION_VALIDATORS, SET_CODE_TRANSACTION_VALIDATORS >>

\* C16: the access-list schema is the legacy schema plus y_parity, chain_id and
\* access_list, with v and y_parity accepted exactly when they are 0 or 1; dynamic-fee
\* adds the two fee fields to access-list, blob adds its two fields to dynamic-fee,
\* set-code adds authorization_list to dynamic-fee. A legacy record with v = 27 is
\* accepted, a record of a typed kind with v = 27 is rejected.
C16_SchemasLayered ==
    /\ SchemaKeys(LEGACY_TRANSACTION_VALIDATORS) = LegacyKeys
    /\ Extends(ACCESS_LIST_TRANSACTION_VALIDATORS, LEGACY_TRANSACTION_VALIDATORS,
               {"y_parity", "chain_id", "access_list"}, {"v"})
    /\ Extends(DYNAMIC_FEE_TRANSACTION_VALIDATORS, ACCESS_LIST_TRANSACTION_VALIDATORS,
               {"max_fee_per_gas", "max_priority_fee_per_gas"}, {})
    /\ Extends(BLOB_TRANSACTION_VALIDATORS, DYNAMIC_FEE_TRANSACTION_VALIDATORS,
               {"max_fee_per_blob_gas", "blob_versioned_hashes"}, {})
    /\ Extends(SET_CODE_TRANSACTION_VALIDATORS, DYNAMIC_FEE_TRANSACTION_VALIDATORS,
               {"authorization_list"}, {})
    /\ (TransactionDone /\ is_dict(arg)) =>
          /\ \A n \in DOMAIN TypedSchemas :
                LET S == TypedSchemas[n]
                IN  Keys(arg) = SchemaKeys(S) =>
                        /\ \A k \in {"v", "y_parity"} :
                              OthersValid(arg, S, k) =>
                                  (result = OK <=> GetItem(arg, k) \in {IntV(0), IntV(1)})
                        /\ GetItem(arg, "v") = IntV(27) => result = ValidationError
          /\ (/\ Keys(arg) = LegacyKeys
              /\ OthersValid(arg, LEGACY_TRANSACTION_VALIDATORS, "v")
              /\ GetItem(arg, "v") = IntV(27)) => result = OK

\* C16 witness: a dynamic-fee record with v = 27, rejected.
C16_Witness ==
    /\ TransactionDone
    /\ arg = SetItem(DynamicFeeTx, "v", IntV(27))
    /\ result = ValidationError

\* C17: no entry point changes its argument except validate_block, and validate_block,
\* whether it succeeds or fails, changes fork fields of inactive forks only: every other
\* key keeps its value, and no other key appears.
C17_OnlyInactiveForkFieldsChange ==
    Done =>
        /\ call # "validate_block" => after = arg
        /\ call = "validate_block" =>
              /\ \A k \in Keys(arg) \ InactiveFields :
                    HasKey(after, k) /\ GetItem(after, k) = GetItem(arg, k)
              /\ Keys(after) \ Keys(arg) \subseteq InactiveFields

\* C17 witness: a failing validate_block call of a London block that kept the base fee
\* and wrote the Shanghai field the block came without.
C17_Witness ==
    /\ BlockDone /\ result = ValidationError
    /\ vm["london"] /\ ~vm["shanghai"]
    /\ HasKey(arg, "base_fee_per_gas")
    /\ GetItem(after, "base_fee_per_gas") = GetItem(arg, "base_fee_per_gas")
    /\ ~HasKey(arg, "withdrawals") /\ HasKey(after, "withdrawals")

\* The order the specification gives the stages.
ForkOrder == <<"london", "shanghai", "cancun", "prague">>

\* The stage of an active fork fails on block b: a field of the fork is absent or
\* ill-formed.
StageFails(b, fork) ==
    /\ vm[fork]
    /\ \E f \in ForkFieldsOf(fork) : ~HasKey(b, f) \/ ~FieldWellFormed(f, GetItem(b, f))

Untouched(f) ==
    /\ HasKey(after, f) = HasKey(arg, f)
    /\ HasKey(arg, f) => GetItem(after, f) = GetItem(arg, f)

\* C18: the stages run in the order London, Shanghai, Cancun, Prague. When stage k is
\* the first to fail the call fails, the stages entered are exactly the first k, the
\* schema validation is not started, every field of an earlier inactive fork is None in
\* the caller's block and every field of a later fork is as it was.
C18_FailingStageStopsThePass ==
    BlockDone =>
        /\ ResolverCompleted => trace = ForkOrder \o <<"schema">>
        /\ \A k \in DOMAIN ForkOrder :
              (/\ StageFails(arg, ForkOrder[k])
               /\ \A j \in 1..(k - 1) : ~StageFails(arg, ForkOrder[j])) =>
                  /\ result # OK
                  /\ trace = SubSeq(ForkOrder, 1, k)
                  /\ \A j \in 1..(k - 1) :
                        ~vm[ForkOrder[j]] =>
                            \A f \in ForkFieldsOf(ForkOrder[j]) :
                                HasKey(after, f) /\ GetItem(after, f) = None
                  /\ \A j \in (k + 1)..Len(ForkOrder) :
                        \A f \in ForkFieldsOf(ForkOrder[j]) : Untouched(f)

\* C18 witness: the Shanghai stage fails on a block that came without base_fee_per_gas
\* and blob_gas_used; the London injection is there, the Cancun one is not.
C18_Witness ==
    /\ BlockDone /\ result = ValidationError
    /\ ~vm["london"] /\ vm["shanghai"] /\ ~vm["cancun"]
    /\ trace = <<"london", "shanghai">>
    /\ ~HasKey(arg, "base_fee_per_gas") /\ ~HasKey(arg, "blob_gas_used")
    /\ HasKey(after, "base_fee_per_gas") /\ GetItem(after, "base_fee_per_gas") = None
    /\ ~HasKey(after, "blob_gas_used")

ReceiptSchemas == << RECEIPT_VALIDATORS, CANCUN_RECEIPT_VALIDATORS >>

PairwiseDistinctKeys(schemas) ==
    \A i, j \in DOMAIN schemas : i # j => SchemaKeys(schemas[i]) # SchemaKeys(schemas[j])

\* The members of a union that accept rec, and the union with its members in order p.
Accepting(rec, schemas) == {n \in DOMAIN schemas : validate_dict(rec, schemas[n]) = OK}
PermutedUnion(schemas, p) == [i \in DOMAIN schemas |-> DictOf(schemas[p[i]])]

OrderIrrelevant(schemas) ==
    /\ Cardinality(Accepting(arg, schemas)) <= 1
    /\ \A p \in Permutations(DOMAIN schemas) :
          (validate_any(arg, PermutedUnion(schemas, p)) = OK) <=> (result = OK)

\* C19: the five transaction schemas have pairwise distinct key sets and so have the
\* two receipt schemas; a record is accepted by at most one member of its union, and
\* the union with its members in any other order accepts the same records.
C19_UnionMembersDisjoint ==
    /\ PairwiseDistinctKeys(TransactionSchemas)
    /\ PairwiseDistinctKeys(ReceiptSchemas)
    /\ TransactionDone => OrderIrrelevant(TransactionSchemas)
    /\ ReceiptDone => OrderIrrelevant(ReceiptSchemas)

\* C19 witness: a blob record, accepted by the fourth member of the union alone.
C19_Witness ==
    /\ TransactionDone
    /\ arg = BlobTx
    /\ result = OK
    /\ Accepting(arg, TransactionSchemas) = {4}

====
